---------------------------- MODULE Spec2Model ----------------------------
(***************************************************************************)
(* Layout bookkeeping of rivet_transpiler/transpiler.py: get_full_map,     *)
(* transpile_right, transpile_left and transpile_chain.                    *)
(*                                                                         *)
(* Data conventions.  A Python list is a TLA+ sequence holding the same    *)
(* values; Python indices are 0-based, so list[i] is s[i + 1].  The qubit  *)
(* objects of a compiled circuit are named by their position 0..n-1 in     *)
(* circuit.qubits (every lookup the code makes through a qubit object of   *)
(* the compiled circuit is made with a qubit of that same register).  A    *)
(* virtual qubit is the pair <<circuit, wire>>: virtual qubits of          *)
(* different source circuits are different objects.                        *)
(***************************************************************************)
EXTENDS Integers, Sequences, FiniteSets

\* Largest number of qubits of a circuit (source or compiled).
MaxWidth == 3

\* Largest number of circuits handed to transpile_chain.
MaxChain == 2

VARIABLES
    pc,       \* what the caller did last
    central,  \* the compiled circuit the caller holds, or None
    call,     \* the last transpile_right / transpile_left call, or None
    chain,    \* the transpile_chain call in progress, or None
    probe     \* the last get_full_map call made directly, or None

vars == <<pc, central, call, chain, probe>>

---------------------------------------------------------------------------
(* Python values *)

None == <<>>

Ok(v) == [ok |-> TRUE, val |-> v]

Raise(e) == [ok |-> FALSE, err |-> e]

\* list(range(n))
Range(n) == [i \in 1..n |-> i - 1]

Min(a, b) == IF a <= b THEN a ELSE b

Max(a, b) == IF a >= b THEN a ELSE b

\* s[:m]
Take(s, m) == SubSeq(s, 1, Min(m, Len(s)))

Values(s) == {s[i] : i \in 1..Len(s)}

Distinct(s) == \A i, j \in 1..Len(s) : s[i] = s[j] => i = j

\* The virtual qubits of the circuit named id, n wires wide, in register order.
Virtuals(id, n) == [k \in 1..n |-> <<id, k - 1>>]

\* All permutations of 0..n-1, as lists.
Routings(n) == {s \in [1..n -> 0..(n - 1)] : Distinct(s)}

\* RoutingsOf[n] = Routings(n), for every width.
RoutingsOf == [n \in 0..MaxWidth |-> Routings(n)]

\* All bijections from the virtual qubits of circuit id, n wide, onto 0..n-1.
Placements(id, n) ==
    {[v \in Values(Virtuals(id, n)) |-> s[v[2] + 1]] : s \in RoutingsOf[n]}

---------------------------------------------------------------------------
(* get_full_map *)

\* zero_map = dict(zip(input_qubit_mapping, transpiled_circuit.qubits))
ZeroMap(circuit) ==
    LET iqm == circuit.layout.input_qubit_mapping
        k == Min(Len(iqm), circuit.num_qubits)
    IN [v \in {iqm[i] : i \in 1..k} |-> (CHOOSE i \in 1..k : iqm[i] = v) - 1]

\* The entry () of after_layout_map that no physical bit has filled.
Unset == <<>>

\* after_layout_map: per physical row the pair (in_virtual, out_virtual).
AfterLayoutMap(circuit) ==
    LET il == circuit.layout.initial_layout
        zm == ZeroMap(circuit)
        n == circuit.num_qubits
    IN IF \E v \in DOMAIN il : v \notin DOMAIN zm \/ il[v] >= n
       THEN Raise("LookupError")
       ELSE Ok([p \in 1..n |->
                 IF \E v \in DOMAIN il : il[v] = p - 1
                 THEN LET v == CHOOSE w \in DOMAIN il : il[w] = p - 1
                      IN <<v, zm[v]>>
                 ELSE Unset])

\* One run of the routing loop without the copy of after_layout_map: the rows
\* are read from the list that is being written.
RECURSIVE RoutingLoopAliased(_, _, _, _)
RoutingLoopAliased(alm, fl, arm, from_row) ==
    IF from_row >= Len(alm) THEN Ok(arm)
    ELSE IF from_row >= Len(fl) THEN Raise("LookupError")
    ELSE LET to_row == fl[from_row + 1] IN
         IF arm[from_row + 1] = Unset THEN Raise("ValueError")
         ELSE IF to_row >= Len(arm) THEN Raise("LookupError")
         ELSE IF arm[to_row + 1] = Unset THEN Raise("ValueError")
         ELSE RoutingLoopAliased(alm, fl,
                  [arm EXCEPT ![to_row + 1] =
                      <<arm[to_row + 1][1], arm[from_row + 1][2]>>],
                  from_row + 1)

\* for from_row, qubit in enumerate(transpiled_circuit.qubits): rows are read
\* from after_layout_map (alm) and written to its copy after_routing_map (arm).
RECURSIVE RoutingLoop(_, _, _, _)
RoutingLoop(alm, fl, arm, from_row) ==
    IF from_row >= Len(alm) THEN Ok(arm)
    ELSE IF from_row >= Len(fl) THEN Raise("LookupError")
    ELSE LET to_row == fl[from_row + 1] IN
         IF alm[from_row + 1] = Unset THEN Raise("ValueError")
         ELSE IF to_row >= Len(alm) THEN Raise("LookupError")
         ELSE IF alm[to_row + 1] = Unset THEN Raise("ValueError")
         ELSE RoutingLoop(alm, fl,
                  [arm EXCEPT ![to_row + 1] =
                      <<alm[to_row + 1][1], alm[from_row + 1][2]>>],
                  from_row + 1)

\* after_routing_map
AfterRoutingMap(circuit, alm) ==
    IF circuit.layout.final_layout = None THEN Ok(alm)
    ELSE RoutingLoop(alm, circuit.layout.final_layout, alm, 0)

\* The physical rows, ascending from row p, whose out_virtual is out_qubit.
RECURSIVE RowsOf(_, _, _)
RowsOf(arm, out_qubit, p) ==
    IF p >= Len(arm) THEN <<>>
    ELSE (IF arm[p + 1][2] = out_qubit THEN <<p>> ELSE <<>>)
         \o RowsOf(arm, out_qubit, p + 1)

\* The two nested loops that build full_map, from out_qubit on.
RECURSIVE FullMapLoop(_, _)
FullMapLoop(arm, out_qubit) ==
    IF out_qubit >= Len(arm) THEN <<>>
    ELSE RowsOf(arm, out_qubit, 0) \o FullMapLoop(arm, out_qubit + 1)

get_full_map(circuit) ==
    IF circuit.layout = None THEN Ok(Range(circuit.num_qubits))
    ELSE LET alm == AfterLayoutMap(circuit) IN
         IF ~alm.ok THEN alm
         ELSE LET arm == AfterRoutingMap(circuit, alm.val) IN
              IF ~arm.ok THEN arm
              ELSE IF \E p \in 1..Len(arm.val) : arm.val[p] = Unset
                   THEN Raise("ValueError")
                   ELSE Ok(FullMapLoop(arm.val, 0))

---------------------------------------------------------------------------
(* Circuits and the compiler *)

\* A source circuit: its identity, its wire count and its operations.
SourceCircuit(id, m, ops) == [id |-> id, num_qubits |-> m, ops |-> ops]

\* A compiled (or composed) circuit; layout is a TranspileLayout or None.
Circuit(n, ops, layout) == [num_qubits |-> n, ops |-> ops, layout |-> layout]

\* qiskit.transpiler.TranspileLayout(...)
TranspileLayout(il, iqm, fl, count, oql) ==
    [initial_layout |-> il, input_qubit_mapping |-> iqm, final_layout |-> fl,
     input_qubit_count |-> count, output_qubit_list |-> oql]

\* The qubit objects of the circuit compiled from the source circuit id.
OutputQubits(id, n) == [k \in 1..n |-> [circuit |-> id, index |-> k - 1]]

\* The values a caller gives routing_method.
RoutingMethods == {"sabre", "none"}

KeyArguments(initial_layout, routing_method) ==
    [initial_layout |-> initial_layout, routing_method |-> routing_method]

\* The Layout Records the pass manager may attach to the n-qubit circuit it
\* compiles from `circuit`: the placement follows the initial_layout it was
\* given, the routing permutation is any permutation, and none when routing
\* is disabled.
CompiledLayouts(circuit, n, key_arguments) ==
    LET vs == Virtuals(circuit.id, n)
        hint == key_arguments.initial_layout
        ils == {il \in Placements(circuit.id, n) :
                   hint # None =>
                       \A k \in 1..circuit.num_qubits : il[vs[k]] = hint[k]}
        fls == IF key_arguments.routing_method = "none" THEN {None}
               ELSE {None} \cup RoutingsOf[n]
    IN {TranspileLayout(il, vs, fl, circuit.num_qubits,
                        OutputQubits(circuit.id, n)) : il \in ils, fl \in fls}

\* transpile(circuit, backend, **key_arguments): every outcome of
\* pass_manager.run.  A circuit compiled without a Layout Record keeps its
\* width; one with a record is as wide as the device, any width from the
\* circuit's own up to MaxWidth.  An initial_layout that does not name one
\* distinct physical qubit per wire is refused.
transpile(circuit, key_arguments) ==
    LET hint == key_arguments.initial_layout IN
    IF hint # None /\ (Len(hint) # circuit.num_qubits \/ ~Distinct(hint))
    THEN {Raise("LayoutError")}
    ELSE {Ok(Circuit(circuit.num_qubits, circuit.ops, None))}
         \cup UNION {{Ok(Circuit(n, circuit.ops, l)) :
                         l \in CompiledLayouts(circuit, n, key_arguments)} :
                     n \in circuit.num_qubits..MaxWidth}

\* qiskit.transpiler.Layout.from_intlist(int_list, *circuit.qregs) for a
\* circuit of num_qubits qubits in one register: the list, indexed by qubit.
from_intlist(int_list, num_qubits) ==
    IF ~Distinct(int_list) THEN Raise("LayoutError")
    ELSE IF Len(int_list) # num_qubits THEN Raise("LayoutError")
    ELSE Ok(int_list)

---------------------------------------------------------------------------
(* transpile_right *)

\* The key_arguments transpile_right hands to transpile, without the forced
\* routing_method when central_circuit has no layout.
RightKeyArgumentsUnforced(central_circuit, right_circuit, key_arguments) ==
    IF central_circuit.layout = None
    THEN Ok([key_arguments EXCEPT !.initial_layout = None])
    ELSE LET full_map == get_full_map(central_circuit) IN
         IF ~full_map.ok THEN full_map
         ELSE Ok([key_arguments EXCEPT
                     !.initial_layout = Take(full_map.val, right_circuit.num_qubits)])

\* "Check Layout": the key_arguments transpile_right hands to transpile.
RightKeyArguments(central_circuit, right_circuit, key_arguments) ==
    IF central_circuit.layout = None
    THEN Ok([key_arguments EXCEPT !.initial_layout = None,
                                  !.routing_method = "none"])
    ELSE LET full_map == get_full_map(central_circuit) IN
         IF ~full_map.ok THEN full_map
         ELSE Ok([key_arguments EXCEPT
                     !.initial_layout = Take(full_map.val, right_circuit.num_qubits)])

\* "Central Routing" of transpile_right
RightCentralRouting(central_circuit) ==
    IF central_circuit.layout.final_layout = None
    THEN Range(central_circuit.num_qubits)
    ELSE central_circuit.layout.final_layout

\* "Right Routing" that never reads the right circuit's final_layout.
RightRoutingIdentity(transpiled_right_circuit, resulting_qubits_count) ==
    Range(resulting_qubits_count)

\* "Right Routing"
RightRouting(transpiled_right_circuit, resulting_qubits_count) ==
    IF transpiled_right_circuit.layout.final_layout = None
    THEN Range(resulting_qubits_count)
    ELSE transpiled_right_circuit.layout.final_layout

\* "Final Routing" with the two permutations composed the other way round.
RightFinalRoutingSwapped(central_routing, right_routing) ==
    [i \in 1..Len(central_routing) |->
        IF right_routing[i] < Len(central_routing)
        THEN central_routing[right_routing[i] + 1]
        ELSE right_routing[i]]

\* final_routing = [right_routing[qubit] for qubit in central_routing]
RightFinalRouting(central_routing, right_routing) ==
    [i \in 1..Len(central_routing) |-> right_routing[central_routing[i] + 1]]

\* transpile_right from "Resulting Circuit" on.
RightCompose(central_circuit, transpiled_right_circuit) ==
    LET resulting_qubits_count == Max(central_circuit.num_qubits,
                                      transpiled_right_circuit.num_qubits)
        ops == central_circuit.ops \o transpiled_right_circuit.ops
    IN
    IF transpiled_right_circuit.layout = None
    THEN Ok(Circuit(resulting_qubits_count, ops, None))
    ELSE IF central_circuit.layout = None
    THEN Ok(Circuit(resulting_qubits_count, ops, transpiled_right_circuit.layout))
    ELSE LET central_routing == RightCentralRouting(central_circuit)
             right_routing == RightRouting(transpiled_right_circuit,
                                           resulting_qubits_count)
         IN
         IF \E i \in 1..Len(central_routing) :
                central_routing[i] >= Len(right_routing)
         THEN Raise("LookupError")
         ELSE LET final_layout ==
                      from_intlist(RightFinalRouting(central_routing, right_routing),
                                   resulting_qubits_count)
              IN IF ~final_layout.ok THEN final_layout
                 ELSE Ok(Circuit(resulting_qubits_count, ops,
                         TranspileLayout(
                             central_circuit.layout.initial_layout,
                             central_circuit.layout.input_qubit_mapping,
                             final_layout.val,
                             transpiled_right_circuit.layout.input_qubit_count,
                             transpiled_right_circuit.layout.output_qubit_list)))

---------------------------------------------------------------------------
(* transpile_left *)

\* One operation of a circuit: the gate and whether it stands inverted.
Operation(gate) == [gate |-> gate, inverted |-> FALSE]

\* QuantumCircuit.inverse() on the operations: order reversed, each inverted.
InverseOps(ops) ==
    [i \in 1..Len(ops) |->
        [ops[Len(ops) + 1 - i] EXCEPT !.inverted = ~ops[Len(ops) + 1 - i].inverted]]

\* circuit.inverse(): same qubits, and for a compiled circuit no layout.
inverse(circuit) == [circuit EXCEPT !.ops = InverseOps(circuit.ops)]

\* "Left Initial Layout" and key_arguments['initial_layout'] = ...: the
\* key_arguments transpile_left hands to transpile.
LeftKeyArguments(central_circuit, left_circuit, key_arguments) ==
    IF central_circuit.layout = None
    THEN Ok([key_arguments EXCEPT !.initial_layout = None,
                                  !.routing_method = "none"])
    ELSE LET initial_layout == central_circuit.layout.initial_layout
             input_qubit_mapping == central_circuit.layout.input_qubit_mapping
         IN IF \E i \in 1..Len(input_qubit_mapping) :
                   input_qubit_mapping[i] \notin DOMAIN initial_layout
            THEN Raise("LookupError")
            ELSE LET initial_map == [i \in 1..Len(input_qubit_mapping) |->
                                        initial_layout[input_qubit_mapping[i]]]
                 IN Ok([key_arguments EXCEPT
                        !.initial_layout = Take(initial_map, left_circuit.num_qubits)])

\* translated_left_circuit: the compiled inverted circuit inverted back,
\* carrying the compiled inverted circuit's layout.  (The basis translation
\* run when a backend is given rewrites gates only.)
TranslatedLeft(transpiled_inverted_left_circuit) ==
    [inverse(transpiled_inverted_left_circuit) EXCEPT
        !.layout = transpiled_inverted_left_circuit.layout]

\* "Left Routing"
LeftRouting(translated_left_circuit) ==
    IF translated_left_circuit.layout.final_layout = None
    THEN Range(translated_left_circuit.num_qubits)
    ELSE translated_left_circuit.layout.final_layout

\* "Central Routing" of transpile_left
LeftCentralRouting(central_circuit, resulting_qubits_count) ==
    IF central_circuit.layout = None THEN Range(resulting_qubits_count)
    ELSE IF central_circuit.layout.final_layout = None
    THEN Range(resulting_qubits_count)
    ELSE central_circuit.layout.final_layout

\* "Final Routing" with the two permutations composed the other way round.
LeftFinalRoutingSwapped(left_routing, central_routing) ==
    [i \in 1..Len(left_routing) |->
        IF i <= Len(central_routing) /\ central_routing[i] < Len(left_routing)
        THEN left_routing[central_routing[i] + 1]
        ELSE left_routing[i]]

\* final_routing = [central_routing[qubit] for qubit in left_routing]
LeftFinalRouting(left_routing, central_routing) ==
    [i \in 1..Len(left_routing) |-> central_routing[left_routing[i] + 1]]

\* Layout.__setitem__: layout[virtual] = physical.  The layout is a bijection
\* kept in both directions: the old entry of virtual and the entry of
\* whatever held physical are dropped before the new pair is stored.
SetItem(layout, virtual, physical) ==
    LET keep == {v \in DOMAIN layout : v # virtual /\ layout[v] # physical}
    IN [v \in keep \cup {virtual} |->
           IF v = virtual THEN physical ELSE layout[v]]

\* for virtual, physical in zip(input_qubit_mapping, initial_map):
\*     initial_layout[virtual] = physical         (from pair i on)
RECURSIVE PatchInitialLayout(_, _, _, _)
PatchInitialLayout(initial_layout, input_qubit_mapping, initial_map, i) ==
    IF i > Len(input_qubit_mapping) \/ i > Len(initial_map) THEN initial_layout
    ELSE PatchInitialLayout(
             SetItem(initial_layout, input_qubit_mapping[i], initial_map[i]),
             input_qubit_mapping, initial_map, i + 1)

\* transpile_left from "Resulting Circuit" on.
LeftCompose(central_circuit, translated_left_circuit) ==
    LET resulting_qubits_count == Max(central_circuit.num_qubits,
                                      translated_left_circuit.num_qubits)
        ops == translated_left_circuit.ops \o central_circuit.ops
    IN
    IF translated_left_circuit.layout = None
    THEN Ok(Circuit(resulting_qubits_count, ops, None))
    ELSE LET left_routing == LeftRouting(translated_left_circuit)
             central_routing == LeftCentralRouting(central_circuit,
                                                   resulting_qubits_count)
         IN
         IF \E i \in 1..Len(left_routing) :
                left_routing[i] >= Len(central_routing)
         THEN Raise("LookupError")
         ELSE LET initial_map == get_full_map(translated_left_circuit) IN
              IF ~initial_map.ok THEN initial_map
              ELSE LET input_qubit_mapping ==
                           translated_left_circuit.layout.input_qubit_mapping
                       initial_layout ==
                           PatchInitialLayout(
                               translated_left_circuit.layout.initial_layout,
                               input_qubit_mapping, initial_map.val, 1)
                       final_layout ==
                           from_intlist(LeftFinalRouting(left_routing, central_routing),
                                        resulting_qubits_count)
                   IN IF ~final_layout.ok THEN final_layout
                      ELSE Ok(Circuit(resulting_qubits_count, ops,
                              TranspileLayout(
                                  initial_layout,
                                  input_qubit_mapping,
                                  final_layout.val,
                                  translated_left_circuit.layout.input_qubit_count,
                                  translated_left_circuit.layout.output_qubit_list)))

---------------------------------------------------------------------------
(* transpile_chain *)

\* The loop body after transpile: the key_arguments for the next circuit.
ChainKeyArguments(key_arguments, circuit, transpiled_circuit) ==
    IF transpiled_circuit.layout = None
    THEN Ok([key_arguments EXCEPT !.initial_layout = None,
                                  !.routing_method = "none"])
    ELSE LET full_map == get_full_map(transpiled_circuit) IN
         IF ~full_map.ok THEN full_map
         ELSE Ok([key_arguments EXCEPT
                     !.initial_layout = Take(full_map.val, circuit.num_qubits)])

RECURSIVE MaxQubits(_)
MaxQubits(transpiled_circuits) ==
    IF transpiled_circuits = <<>> THEN 0
    ELSE Max(Head(transpiled_circuits).num_qubits,
             MaxQubits(Tail(transpiled_circuits)))

RECURSIVE ComposeAll(_)
ComposeAll(transpiled_circuits) ==
    IF transpiled_circuits = <<>> THEN <<>>
    ELSE Head(transpiled_circuits).ops \o ComposeAll(Tail(transpiled_circuits))

\* "Resulting Circuit" and "Compose" of transpile_chain.
ChainResult(transpiled_circuits) ==
    Circuit(MaxQubits(transpiled_circuits), ComposeAll(transpiled_circuits),
            transpiled_circuits[Len(transpiled_circuits)].layout)

---------------------------------------------------------------------------
(* The caller *)

CentralId == <<"central", 0>>

RightId == <<"right", 0>>

LeftId == <<"left", 0>>

ChainId(i) == <<"chain", i>>

\* The circuits a caller may hand in under the name id.
SourceCircuits(id) ==
    {SourceCircuit(id, m, <<Operation(id)>>) : m \in 1..MaxWidth}

\* The circuit with zero operations.
EmptyCircuits(id) == {SourceCircuit(id, m, <<>>) : m \in 1..MaxWidth}

\* Compiled circuits whose Layout Record breaks the compiler's contract: the
\* final_layout sends two qubits to one physical slot.
BrokenCircuits ==
    UNION {{Circuit(n, <<Operation(CentralId)>>,
                    TranspileLayout(il, Virtuals(CentralId, n), fl, n,
                                    OutputQubits(CentralId, n))) :
               il \in Placements(CentralId, n),
               fl \in {f \in [1..n -> 0..(n - 1)] : ~Distinct(f)}} :
           n \in 1..MaxWidth}

Init ==
    /\ pc = "start"
    /\ central = None
    /\ call = None
    /\ chain = None
    /\ probe = None

\* central_circuit = transpile(circuit, backend, routing_method=...)
CompileCentral ==
    /\ pc = "start"
    /\ \E circuit \in SourceCircuits(CentralId), routing_method \in RoutingMethods :
         \E compiled \in transpile(circuit, KeyArguments(None, routing_method)) :
            /\ compiled.ok
            /\ central' = compiled.val
    /\ pc' = "central"
    /\ UNCHANGED <<call, chain, probe>>

\* The caller is handed a compiled circuit whose final_layout is not a
\* permutation.
ReceiveBroken ==
    /\ pc = "start"
    /\ central' \in BrokenCircuits
    /\ pc' = "broken"
    /\ UNCHANGED <<call, chain, probe>>

\* get_full_map(central)
GetFullMap ==
    /\ pc \in {"central", "broken"}
    /\ probe' = [circuit |-> central, full_map |-> get_full_map(central)]
    /\ pc' = "probed"
    /\ UNCHANGED <<central, call, chain>>

CallRecord(op, circuit, key_arguments, passed, compiled, result) ==
    [op |-> op, after |-> pc, central_circuit |-> central, circuit |-> circuit,
     key_arguments |-> key_arguments, passed |-> passed,
     compiled |-> compiled, result |-> result]

\* central = transpile_right(central, right_circuit, routing_method=...)
TranspileRight ==
    /\ pc = "central"
    /\ \E right_circuit \in SourceCircuits(RightId),
          routing_method \in RoutingMethods :
         LET key_arguments == KeyArguments(None, routing_method)
             passed == RightKeyArguments(central, right_circuit, key_arguments)
         IN IF ~passed.ok
            THEN call' = CallRecord("right", right_circuit, key_arguments,
                                    passed, None, passed)
            ELSE \E compiled \in transpile(right_circuit, passed.val) :
                    call' = CallRecord("right", right_circuit, key_arguments,
                                passed, compiled,
                                IF compiled.ok
                                THEN RightCompose(central, compiled.val)
                                ELSE compiled)
    /\ central' = IF call'.result.ok THEN call'.result.val ELSE central
    /\ pc' = IF call'.result.ok THEN "right" ELSE "failed"
    /\ UNCHANGED <<chain, probe>>

\* transpile_left(central, left_circuit, routing_method=...) for one of the
\* left circuits given.
LeftCall(left_circuits) ==
    /\ \E left_circuit \in left_circuits, routing_method \in RoutingMethods :
         LET key_arguments == KeyArguments(None, routing_method)
             passed == LeftKeyArguments(central, left_circuit, key_arguments)
         IN IF ~passed.ok
            THEN call' = CallRecord("left", left_circuit, key_arguments,
                                    passed, None, passed)
            ELSE \E compiled \in transpile(inverse(left_circuit), passed.val) :
                    call' = CallRecord("left", left_circuit, key_arguments,
                                passed, compiled,
                                IF compiled.ok
                                THEN LeftCompose(central,
                                                 TranslatedLeft(compiled.val))
                                ELSE compiled)
    /\ central' = IF call'.result.ok THEN call'.result.val ELSE central
    /\ pc' = IF call'.result.ok THEN "left" ELSE "failed"
    /\ UNCHANGED <<chain, probe>>

\* central = transpile_left(central, left_circuit, routing_method=...)
TranspileLeft ==
    /\ pc = "central"
    /\ LeftCall(SourceCircuits(LeftId))

\* central = transpile_left(central, QuantumCircuit(m), routing_method=...)
\* on the circuit transpile_right returned.
TranspileLeftEmpty ==
    /\ pc = "right"
    /\ LeftCall(EmptyCircuits(LeftId))

\* transpile_chain(circuits, routing_method=...) is entered.
ChainStart ==
    /\ pc = "start"
    /\ \E len \in 1..MaxChain, routing_method \in RoutingMethods :
         \E widths \in [1..len -> 1..MaxWidth] :
            chain' = [circuits |-> [i \in 1..len |->
                          SourceCircuit(ChainId(i - 1), widths[i],
                                        <<Operation(ChainId(i - 1))>>)],
                      key_arguments |-> KeyArguments(None, routing_method),
                      calls |-> <<>>,
                      transpiled_circuits |-> <<>>,
                      result |-> None]
    /\ pc' = "chain"
    /\ UNCHANGED <<central, call, probe>>

\* One iteration of "for circuit in circuits".
ChainStep ==
    /\ pc = "chain"
    /\ Len(chain.transpiled_circuits) < Len(chain.circuits)
    /\ LET circuit == chain.circuits[Len(chain.transpiled_circuits) + 1]
           calls == Append(chain.calls, chain.key_arguments)
       IN \E compiled \in transpile(circuit, chain.key_arguments) :
             LET next == IF compiled.ok
                         THEN ChainKeyArguments(chain.key_arguments, circuit,
                                                compiled.val)
                         ELSE compiled
             IN IF next.ok
                THEN /\ chain' = [chain EXCEPT
                            !.calls = calls,
                            !.key_arguments = next.val,
                            !.transpiled_circuits = Append(@, compiled.val)]
                     /\ pc' = "chain"
                ELSE /\ chain' = [chain EXCEPT !.calls = calls,
                                               !.result = next]
                     /\ pc' = "failed"
    /\ UNCHANGED <<central, call, probe>>

\* The loop is over: compose and return.
ChainFinish ==
    /\ pc = "chain"
    /\ Len(chain.transpiled_circuits) = Len(chain.circuits)
    /\ chain' = [chain EXCEPT !.result = Ok(ChainResult(chain.transpiled_circuits))]
    /\ central' = ChainResult(chain.transpiled_circuits)
    /\ pc' = "chained"
    /\ UNCHANGED <<call, probe>>

Next ==
    \/ CompileCentral
    \/ ReceiveBroken
    \/ GetFullMap
    \/ TranspileRight
    \/ TranspileLeft
    \/ TranspileLeftEmpty
    \/ ChainStart
    \/ ChainStep
    \/ ChainFinish

Spec == Init /\ [][Next]_vars

\* get_full_map alone.
NextFullMap == CompileCentral \/ ReceiveBroken \/ GetFullMap

SpecFullMap == Init /\ [][NextFullMap]_vars

\* transpile_right alone.
NextRight == CompileCentral \/ TranspileRight

SpecRight == Init /\ [][NextRight]_vars

\* transpile_left alone.
NextLeft == CompileCentral \/ TranspileLeft

SpecLeft == Init /\ [][NextLeft]_vars

\* transpile_chain alone.
NextChain == ChainStart \/ ChainStep \/ ChainFinish

SpecChain == Init /\ [][NextChain]_vars

---------------------------------------------------------------------------
(* Vocabulary of the properties *)

\* A valid Layout Record: initial_layout and input_qubit_mapping are
\* bijections over the circuit's qubits, final_layout is absent or a
\* permutation of the circuit's own physical slots.
ValidRecord(circuit) ==
    /\ circuit.layout # None
    /\ LET l == circuit.layout
           n == circuit.num_qubits
       IN /\ Len(l.input_qubit_mapping) = n
          /\ Distinct(l.input_qubit_mapping)
          /\ DOMAIN l.initial_layout = Values(l.input_qubit_mapping)
          /\ {l.initial_layout[v] : v \in DOMAIN l.initial_layout} = 0..(n - 1)
          /\ \/ l.final_layout = None
             \/ /\ Len(l.final_layout) = n
                /\ Distinct(l.final_layout)
                /\ Values(l.final_layout) = 0..(n - 1)

\* The physical slot placement gives wire k (1-based position in
\* input_qubit_mapping).
PlacedAt(circuit, k) ==
    circuit.layout.initial_layout[circuit.layout.input_qubit_mapping[k]]

\* Where routing sends physical slot q; an absent record or an absent
\* final_layout is the identity.
FinalAt(circuit, q) ==
    IF circuit.layout = None THEN q
    ELSE IF circuit.layout.final_layout = None THEN q
    ELSE circuit.layout.final_layout[q + 1]

RightCalled == call # None /\ call.op = "right" /\ call.passed.ok /\ call.compiled.ok

LeftCalled == call # None /\ call.op = "left" /\ call.passed.ok /\ call.compiled.ok

---------------------------------------------------------------------------
(* get_full_map *)

\* C1: for a circuit with a valid Layout Record get_full_map returns one
\* physical index per wire, the indices are pairwise distinct and lie in
\* 0..width-1, and a wire whose placement slot routing leaves in place is
\* mapped to that slot.
C1_FullMapInjective ==
    (probe # None /\ ValidRecord(probe.circuit)) =>
        LET c == probe.circuit
            n == c.num_qubits
            fm == probe.full_map
        IN /\ fm.ok
           /\ Len(fm.val) = n
           /\ Distinct(fm.val)
           /\ \A k \in 1..n : fm.val[k] \in 0..(n - 1)
           /\ \A k \in 1..n :
                  FinalAt(c, PlacedAt(c, k)) = PlacedAt(c, k)
                      => fm.val[k] = PlacedAt(c, k)

\* get_full_map has run on a valid record whose routing moves some wires and
\* leaves another in place, after a placement that is not the identity.
C1_Witness ==
    /\ probe # None
    /\ ValidRecord(probe.circuit)
    /\ probe.circuit.layout.final_layout # None
    /\ \E k \in 1..probe.circuit.num_qubits :
           /\ FinalAt(probe.circuit, PlacedAt(probe.circuit, k))
                  = PlacedAt(probe.circuit, k)
           /\ PlacedAt(probe.circuit, k) # k - 1
    /\ \E k \in 1..probe.circuit.num_qubits :
           FinalAt(probe.circuit, PlacedAt(probe.circuit, k))
               # PlacedAt(probe.circuit, k)

\* C2: given a record whose final_layout sends two qubits to the same slot,
\* get_full_map fails with InconsistentLayout and returns no map.
C2_NonBijectiveRaises ==
    (/\ probe # None
     /\ probe.circuit.layout # None
     /\ probe.circuit.layout.final_layout # None
     /\ ~Distinct(probe.circuit.layout.final_layout))
        => (~probe.full_map.ok /\ probe.full_map.err = "InconsistentLayout")

---------------------------------------------------------------------------
(* transpile_right *)

\* C3: when central has a Layout Record and the compiled right circuit has
\* none, the circuit transpile_right returns carries central's record.
C3_RightInheritsCentralRecord ==
    (/\ RightCalled
     /\ call.result.ok
     /\ call.central_circuit.layout # None
     /\ call.compiled.val.layout = None)
        => call.result.val.layout = call.central_circuit.layout

\* C4: when both circuits carry Layout Records, the returned circuit's
\* final_layout is right_final[central_final[q]] at every slot q (an absent
\* final_layout being the identity), its initial_layout and
\* input_qubit_mapping are central's, its input_qubit_count and
\* output_qubit_list the right circuit's.
C4_RightComposition ==
    (/\ RightCalled
     /\ call.result.ok
     /\ call.central_circuit.layout # None
     /\ call.compiled.val.layout # None)
        => LET c == call.central_circuit
               r == call.compiled.val
               x == call.result.val
           IN /\ x.layout # None
              /\ x.layout.final_layout # None
              /\ Len(x.layout.final_layout) = x.num_qubits
              /\ \A q \in 0..(x.num_qubits - 1) :
                     FinalAt(x, q) = FinalAt(r, FinalAt(c, q))
              /\ x.layout.initial_layout = c.layout.initial_layout
              /\ x.layout.input_qubit_mapping = c.layout.input_qubit_mapping
              /\ x.layout.input_qubit_count = r.layout.input_qubit_count
              /\ x.layout.output_qubit_list = r.layout.output_qubit_list

\* transpile_right has composed two records whose routing permutations are
\* both present and do not commute.
C4_Witness ==
    /\ RightCalled
    /\ call.result.ok
    /\ call.central_circuit.layout # None
    /\ call.compiled.val.layout # None
    /\ call.central_circuit.layout.final_layout # None
    /\ call.compiled.val.layout.final_layout # None
    /\ \E q \in 0..(call.result.val.num_qubits - 1) :
           FinalAt(call.compiled.val, FinalAt(call.central_circuit, q))
               # FinalAt(call.central_circuit, FinalAt(call.compiled.val, q))

\* The scenario of C7: central on 2 qubits placed {v0 -> 1, v1 -> 0} with no
\* final_layout; a right circuit of 2 wires compiled under the hint [1, 0]
\* whose final_layout swaps slots 0 and 1.
C7_Scenario ==
    /\ RightCalled
    /\ call.result.ok
    /\ call.central_circuit.num_qubits = 2
    /\ call.central_circuit.layout # None
    /\ call.central_circuit.layout.final_layout = None
    /\ PlacedAt(call.central_circuit, 1) = 1
    /\ PlacedAt(call.central_circuit, 2) = 0
    /\ call.circuit.num_qubits = 2
    /\ call.passed.val.initial_layout = <<1, 0>>
    /\ call.compiled.val.num_qubits = 2
    /\ call.compiled.val.layout # None
    /\ call.compiled.val.layout.final_layout = <<1, 0>>

\* C7 as stated: in the scenario, get_full_map of the circuit transpile_right
\* returns is [1, 0].
C7_FullMapIsOneZero ==
    C7_Scenario => get_full_map(call.result.val) = Ok(<<1, 0>>)

\* C7 amended: in the scenario, get_full_map of the circuit transpile_right
\* returns is [0, 1]: the right circuit's swap moves each wire off the slot
\* central's placement gave it.
C7_FullMapIsZeroOne ==
    C7_Scenario => get_full_map(call.result.val) = Ok(<<0, 1>>)

\* The scenario of C7 has been run.
C7_Witness == C7_Scenario /\ call.result.val.layout.final_layout = <<1, 0>>

\* C9 as stated: when central has no Layout Record, the right circuit is
\* compiled with no placement hint and with the caller's routing directive
\* unchanged.
C9_RoutingNotForced ==
    (RightCalled /\ call.central_circuit.layout = None)
        => /\ call.passed.val.initial_layout = None
           /\ call.passed.val.routing_method = call.key_arguments.routing_method

\* C9 amended: when central has no Layout Record, the right circuit is
\* compiled with no placement hint and with the routing directive 'none',
\* whatever the caller gave.
C9_RoutingForcedNone ==
    (RightCalled /\ call.central_circuit.layout = None)
        => /\ call.passed.val.initial_layout = None
           /\ call.passed.val.routing_method = "none"

\* transpile_right has run on a central circuit without a record for a caller
\* that asked for a routing method.
C9_Witness ==
    /\ RightCalled
    /\ call.central_circuit.layout = None
    /\ call.key_arguments.routing_method = "sabre"

---------------------------------------------------------------------------
(* transpile_left *)

\* The left circuit's initial_layout with each wire k of its
\* input_qubit_mapping re-pointed to entry k of full_map.
Repointed(left, full_map) ==
    LET iqm == left.layout.input_qubit_mapping
        il == left.layout.initial_layout
    IN [v \in DOMAIN il \cup {iqm[k] : k \in 1..Min(Len(iqm), Len(full_map))} |->
           IF \E k \in 1..Min(Len(iqm), Len(full_map)) : iqm[k] = v
           THEN full_map[CHOOSE k \in 1..Min(Len(iqm), Len(full_map)) : iqm[k] = v]
           ELSE il[v]]

\* C6: when the compiled left circuit carries a Layout Record, the returned
\* circuit's final_layout is central_final[left_final[q]] at every slot q (an
\* absent final_layout being the identity), its initial_layout is the left
\* circuit's with each wire re-pointed to its entry of get_full_map(left),
\* and input_qubit_mapping, input_qubit_count and output_qubit_list are the
\* left circuit's; when the left circuit carries no record, neither does the
\* returned circuit.
C6_LeftComposition ==
    (LeftCalled /\ call.result.ok)
        => LET c == call.central_circuit
               l == call.compiled.val
               x == call.result.val
           IN IF l.layout = None THEN x.layout = None
              ELSE /\ x.layout # None
                   /\ x.layout.final_layout # None
                   /\ Len(x.layout.final_layout) = x.num_qubits
                   /\ \A q \in 0..(x.num_qubits - 1) :
                          FinalAt(x, q) = FinalAt(c, FinalAt(l, q))
                   /\ get_full_map(l).ok
                   /\ x.layout.initial_layout = Repointed(l, get_full_map(l).val)
                   /\ x.layout.input_qubit_mapping = l.layout.input_qubit_mapping
                   /\ x.layout.input_qubit_count = l.layout.input_qubit_count
                   /\ x.layout.output_qubit_list = l.layout.output_qubit_list

\* transpile_left has composed two records whose routing permutations are both
\* present and do not commute, and the left circuit's routing moved a wire.
C6_Witness ==
    /\ LeftCalled
    /\ call.result.ok
    /\ call.central_circuit.layout # None
    /\ call.compiled.val.layout # None
    /\ call.central_circuit.layout.final_layout # None
    /\ call.compiled.val.layout.final_layout # None
    /\ call.result.val.layout.initial_layout
           # call.compiled.val.layout.initial_layout
    /\ \E q \in 0..(call.result.val.num_qubits - 1) :
           FinalAt(call.compiled.val, FinalAt(call.central_circuit, q))
               # FinalAt(call.central_circuit, FinalAt(call.compiled.val, q))

\* C10: when central and the left circuit have the same width, both carry
\* Layout Records and the left circuit's placement is the hint derived from
\* central's initial_layout, every wire of the returned circuit ends on the
\* physical slot it ends on in central:
\* get_full_map(transpile_left(central, left)) = get_full_map(central).
C10_LeftKeepsFullMap ==
    (/\ LeftCalled
     /\ call.result.ok
     /\ call.central_circuit.layout # None
     /\ call.compiled.val.layout # None
     /\ call.circuit.num_qubits = call.central_circuit.num_qubits
     /\ call.compiled.val.num_qubits = call.central_circuit.num_qubits
     /\ \A k \in 1..call.circuit.num_qubits :
            PlacedAt(call.compiled.val, k) = call.passed.val.initial_layout[k])
        => get_full_map(call.result.val) = get_full_map(call.central_circuit)

---------------------------------------------------------------------------
(* transpile_chain *)

\* C5: every circuit i > 0 of the chain whose predecessor compiled with a
\* Layout Record is compiled with the first wire_count(i) entries of
\* get_full_map(compiled circuit i-1) as initial_layout.
C5_ChainHintUsesOwnWidth ==
    (chain # None) =>
        \A i \in 2..Len(chain.calls) :
            chain.transpiled_circuits[i - 1].layout # None
                => chain.calls[i].initial_layout =
                       Take(get_full_map(chain.transpiled_circuits[i - 1]).val,
                            chain.circuits[i].num_qubits)

---------------------------------------------------------------------------
(* transpile_right, then transpile_left of the empty circuit *)

\* The Layout Records of a and b agree: both absent, or both present with the
\* same placement of every wire and the same routing of every slot.
SameRecord(a, b) ==
    /\ (a.layout = None) <=> (b.layout = None)
    /\ a.layout # None =>
           /\ a.num_qubits = b.num_qubits
           /\ Len(a.layout.input_qubit_mapping) = Len(b.layout.input_qubit_mapping)
           /\ \A k \in 1..Len(a.layout.input_qubit_mapping) :
                  PlacedAt(a, k) = PlacedAt(b, k)
           /\ \A q \in 0..(a.num_qubits - 1) : FinalAt(a, q) = FinalAt(b, q)

\* C8: transpile_left of a circuit with zero operations onto
\* X = transpile_right(C, R) returns X's operations and X's Layout Record,
\* whatever the compiler returns for the empty circuit.
C8_EmptyLeftIsNoOp ==
    (/\ LeftCalled
     /\ call.after = "right"
     /\ call.circuit.ops = <<>>
     /\ call.result.ok)
        => /\ call.result.val.ops = call.central_circuit.ops
           /\ SameRecord(call.result.val, call.central_circuit)

===========================================================================
